---- MODULE Spec2Model ----
(***************************************************************************)
(* Model of src/main.py: the poll loop `main` that watches                 *)
(* transcriptions/transcriptions.txt, and the dispatcher                   *)
(* `run_gemini_conversation` that sends the newest line to the Oracle and  *)
(* invokes the selected action, exiting the process on success.            *)
(*                                                                         *)
(* Text is a sequence of characters, so that strip() is computed.          *)
(* An optional value (Python None or a value) is <<>> or <<value>>.        *)
(***************************************************************************)
EXTENDS Integers, Sequences, FiniteSets, TLC

\* ------------------------------------------------------------------ bounds
MaxLines == 2      \* lines the monitored file holds at most
MaxMtime == 1      \* modification times are 0..MaxMtime
CountCap == 2      \* ghost counters saturate here ("two or more")

Mtimes == 0..MaxMtime

\* Raw lines an external writer appends, as iterating the file yields them:
\* "\n", "a\n", "b\n", " a \n".
RawLines == { <<"\n">>, <<"a", "\n">>, <<"b", "\n">>, <<" ", "a", " ", "\n">> }

None == <<>>
Some(v) == <<v>>

\* --------------------------------------------------------- pure functions
IsSpace(c) == c \in {" ", "\n"}

RECURSIVE LStrip(_)
LStrip(s) == IF s # <<>> /\ IsSpace(Head(s)) THEN LStrip(Tail(s)) ELSE s

RECURSIVE RStrip(_)
RStrip(s) ==
    IF s # <<>> /\ IsSpace(s[Len(s)]) THEN RStrip(SubSeq(s, 1, Len(s) - 1)) ELSE s

\* str.strip()
Strip(s) == RStrip(LStrip(s))

\* [line.strip() for line in file if line.strip()]
StrippedLines(lines) ==
    SelectSeq([i \in 1..Len(lines) |-> Strip(lines[i])], LAMBDA l : l # <<>>)

\* get_last_line on an open file: lines[-1] if lines else None
\* (faulty variant: lines[0])
GetLastLine_First(lines) ==
    LET ls == StrippedLines(lines)
    IN  IF ls # <<>> THEN Some(ls[1]) ELSE None
GetLastLine(lines) ==
    LET ls == StrippedLines(lines)
    IN  IF ls # <<>> THEN Some(ls[Len(ls)]) ELSE None

\* `last_mtime is None or mtime != last_mtime`
\* (faulty variant: the file is read on every poll)
MtimeChanged_Always(last, m) == TRUE
\* (faulty variant: only the first poll reads the file)
MtimeChanged_FirstOnly(last, m) == last = None
MtimeChanged(last, m) == last = None \/ Some(m) # last

\* `last_mtime = mtime` (line 116)
\* (faulty variant: the observed time is not recorded)
RecordMtime_Skip(last, m) == last
RecordMtime(last, m) == Some(m)

\* `latest_line and latest_line != last_processed_line`
\* (faulty variant: no comparison with the processed line)
IsNewLine_NoDedup(latest, processed) == latest # None /\ latest[1] # <<>>
IsNewLine(latest, processed) ==
    latest # None /\ latest[1] # <<>> /\ latest[1] # processed

\* `last_processed_line = latest_line` (line 119)
\* (faulty variant: the line is not recorded)
MarkProcessed_Skip(latest, processed) == processed
MarkProcessed(latest, processed) == latest[1]

\* `await run_gemini_conversation(latest_line)`: main is suspended until the
\* dispatcher coroutine has finished.
\* (faulty variant: the coroutine is started and not awaited)
AfterDispatchStart_NoAwait == "sleep"
AfterDispatchStart == "await_dispatch"

\* available_tools
AvailableTools == { "dispense_drink" }
\* action names an Oracle response may carry
ActionNames == { "dispense_drink", "make_coffee" }

\* available_tools.get(function_name): the callable or None
\* (faulty variant: every name resolves to a callable)
LookupTool_Any(name) == Some(name)
LookupTool(name) == IF name \in AvailableTools THEN Some(name) ELSE None

\* Responses of model.generate_content, by what parsing them does:
\*   call    : parts[0].function_call is set and names `name`
\*   nocall  : parts[0].function_call is empty (a text part)
\*   index   : candidates or parts is empty (IndexError)
\*   attr    : an attribute is missing (AttributeError)
\* `text` tells whether response.text can be read in the except branch.
Responses ==
    { [kind |-> "call", name |-> n, text |-> FALSE] : n \in ActionNames }
    \cup { [kind |-> "nocall", name |-> "", text |-> TRUE] }
    \cup { [kind |-> k, name |-> "", text |-> t] :
              k \in {"index", "attr"}, t \in BOOLEAN }
NoResponse == [kind |-> "none", name |-> "", text |-> FALSE]

\* Python values an action can hand back. bool is a subclass of int: True is
\* the int 1 of type bool.
PyTrue == [t |-> "bool", n |-> 1]
PyFalse == [t |-> "bool", n |-> 0]
PyNone == [t |-> "NoneType", n |-> 0]
PyInt(k) == [t |-> "int", n |-> k]
PyStr == [t |-> "str", n |-> 0]        \* a non-empty string
\* an asyncio Future or Task object that resolves to the plain value v
PyFuture(v) == [t |-> "Future", n |-> 0, resolves |-> v]
PlainValues == { PyTrue, PyFalse, PyNone, PyInt(1), PyInt(2), PyStr }
NoResult == [t |-> "unset", n |-> 0]

\* `result == True`: Python compares bool and int by number.
EqualsTrue(v) == v.t \in {"bool", "int"} /\ v.n = 1

\* `asyncio.iscoroutine(call_result)`
IsCoroutine(kind) == kind = "coroutine"

\* `except (AttributeError, IndexError)` (line 88)
\* (faulty variant: `except IndexError`)
Caught_IndexOnly(exc) == exc = "IndexError"
Caught(exc) == exc \in {"AttributeError", "IndexError"}
Exceptions == { "AttributeError", "IndexError", "RuntimeError" }

\* `except Exception` (line 91) around the read of response.text, which
\* raises ValueError when the response holds no text.
CaughtInner(exc) == exc \notin { "SystemExit", "KeyboardInterrupt" }
TextError == "ValueError"

SatInc(n) == IF n < CountCap THEN n + 1 ELSE n

\* ------------------------------------------------------------------ state
VARIABLES
    file,                 \* the monitored file: [exists, lines, mtime]
    mainpc,               \* position of main()
    last_mtime,           \* WatchState.last_modified_timestamp (None or Some)
    last_processed_line,  \* WatchState.last_processed_line
    mtime,                \* main's local `mtime`
    dpc,                  \* position of run_gemini_conversation
    user_prompt,          \* its argument
    response,             \* the Oracle's response
    result,               \* `result`
    exit_code,            \* None while the process lives, Some(status) after
    flag,                 \* contents of dispense_done.flag (None: no file)
    \* history variables (not program state)
    successes,            \* actuator invocations that returned the sentinel
    actuating,            \* actuator invocations in progress
    quiet,                \* poll cycles started since the file last changed
    lastAppend,           \* the latest file change, when it appended a
                          \* non-blank line under a new modification time;
                          \* fresh: the line differed from last_processed_line
    uttCount,             \* Utterances produced since the file last changed
    lastUtterance,        \* the Utterance of the latest Oracle call
    changedInDispatch,    \* the latest file change fell into a dispatch
    outcome,              \* how the current poll cycle ended
    epoch                 \* flips at every change of the monitored file

watch == <<last_mtime, last_processed_line>>
prog == <<mainpc, last_mtime, last_processed_line, mtime, dpc, user_prompt,
          response, result, exit_code, flag>>
hist == <<successes, actuating, quiet, lastAppend, uttCount, lastUtterance,
          changedInDispatch, outcome, epoch>>
vars == <<file, prog, hist>>

NoFile == [exists |-> FALSE, lines |-> <<>>, mtime |-> 0]
NoAppend == [line |-> <<>>, fresh |-> FALSE]

Init ==
    /\ file = NoFile
    /\ mainpc = "exists"
    /\ last_mtime = None
    /\ last_processed_line = <<>>
    /\ mtime = 0
    /\ dpc = "idle"
    /\ user_prompt = <<>>
    /\ response = NoResponse
    /\ result = NoResult
    /\ exit_code = None
    /\ flag = None
    /\ successes = 0
    /\ actuating = 0
    /\ quiet = 0
    /\ lastAppend = NoAppend
    /\ uttCount = 0
    /\ lastUtterance = <<>>
    /\ changedInDispatch = FALSE
    /\ outcome = "running"
    /\ epoch = 0

Running == exit_code = None

\* ------------------------------------------------- the external writer
\* Every change of the file restarts the history of "since the last change".
Changed(app) ==
    /\ quiet' = 0
    /\ uttCount' = 0
    /\ lastAppend' = app
    /\ changedInDispatch' = (dpc \notin {"idle", "exited", "crashed"})
    /\ epoch' = 1 - epoch
    /\ UNCHANGED <<prog, successes, actuating, lastUtterance, outcome>>

\* A line is appended; the modification time becomes m (m = file.mtime: the
\* write falls into the same timestamp tick).
EnvAppend(l, m) ==
    /\ file.exists
    /\ Len(file.lines) < MaxLines
    /\ file' = [file EXCEPT !.lines = Append(@, l), !.mtime = m]
    /\ Changed(IF Strip(l) # <<>> /\ m # file.mtime /\ Some(m) # last_mtime
               THEN [line |-> Strip(l), fresh |-> Strip(l) # last_processed_line]
               ELSE NoAppend)

\* The modification time changes, the contents do not (touch).
EnvTouch(m) ==
    /\ file.exists
    /\ m # file.mtime
    /\ file' = [file EXCEPT !.mtime = m]
    /\ Changed(NoAppend)

EnvRemove ==
    /\ file.exists
    /\ file' = NoFile
    /\ Changed(NoAppend)

EnvCreate(m) ==
    /\ ~file.exists
    /\ file' = [exists |-> TRUE, lines |-> <<>>, mtime |-> m]
    /\ Changed(NoAppend)

Env ==
    \/ \E l \in RawLines, m \in Mtimes : EnvAppend(l, m)
    \/ \E m \in Mtimes : EnvTouch(m)
    \/ EnvRemove
    \/ \E m \in Mtimes : EnvCreate(m)

\* ------------------------------------------------------------ main()
\* An uncaught exception ends the process with a failure status.
Crash ==
    /\ mainpc' = "crashed"
    /\ dpc' = IF dpc = "idle" THEN "idle" ELSE "crashed"
    /\ exit_code' = Some(1)
    /\ actuating' = 0
    /\ outcome' = "error"

\* The poll cycle ends without an Utterance; main reaches the sleep.
EndCycle(how) ==
    /\ mainpc' = "sleep"
    /\ outcome' = how
    /\ UNCHANGED <<dpc, user_prompt, response, result, exit_code>>
    /\ UNCHANGED <<file, successes, actuating, quiet, lastAppend, uttCount,
                   lastUtterance, changedInDispatch, epoch>>

\* line 113: os.path.exists(transcript_path)
CheckExists ==
    /\ mainpc = "exists"
    /\ quiet' = SatInc(quiet)
    /\ UNCHANGED <<watch, mtime, flag>>
    /\ IF file.exists
       THEN /\ mainpc' = "getmtime"
            /\ UNCHANGED <<outcome, dpc, user_prompt, response, result, exit_code>>
            /\ UNCHANGED <<file, successes, actuating, lastAppend, uttCount,
                           lastUtterance, changedInDispatch, epoch>>
       ELSE /\ mainpc' = "sleep"
            /\ outcome' = "absent"
            /\ UNCHANGED <<dpc, user_prompt, response, result, exit_code>>
            /\ UNCHANGED <<file, successes, actuating, lastAppend, uttCount,
                           lastUtterance, changedInDispatch, epoch>>

\* lines 114-116: os.path.getmtime raises FileNotFoundError when the file is
\* gone; otherwise compare with last_mtime and record the new value.
GetMtime ==
    /\ mainpc = "getmtime"
    /\ UNCHANGED flag
    /\ IF ~file.exists
       THEN /\ Crash
            /\ UNCHANGED <<watch, mtime, user_prompt, response, result>>
            /\ UNCHANGED <<file, successes, quiet, lastAppend, uttCount,
                           lastUtterance, changedInDispatch, epoch>>
       ELSE /\ mtime' = file.mtime
            /\ IF MtimeChanged(last_mtime, file.mtime)
               THEN /\ last_mtime' = RecordMtime(last_mtime, file.mtime)
                    /\ mainpc' = "read"
                    /\ UNCHANGED <<last_processed_line, dpc, user_prompt,
                                   response, result, exit_code>>
                    /\ UNCHANGED <<file, hist>>
               ELSE /\ UNCHANGED watch
                    /\ EndCycle("unchanged")

\* lines 117-120: get_last_line opens and reads the file (open raises
\* FileNotFoundError when it is gone); a new line is recorded and handed to
\* run_gemini_conversation.
ReadFile ==
    /\ mainpc = "read"
    /\ UNCHANGED <<last_mtime, mtime, flag>>
    /\ IF ~file.exists
       THEN /\ Crash
            /\ UNCHANGED <<last_processed_line, user_prompt, response, result>>
            /\ UNCHANGED <<file, successes, quiet, lastAppend, uttCount,
                           lastUtterance, changedInDispatch, epoch>>
       ELSE LET latest_line == GetLastLine(file.lines)
            IN  IF IsNewLine(latest_line, last_processed_line)
                THEN /\ last_processed_line' =
                            MarkProcessed(latest_line, last_processed_line)
                     /\ user_prompt' = latest_line[1]
                     /\ dpc' = "start"
                     /\ mainpc' = AfterDispatchStart
                     /\ response' = NoResponse
                     /\ result' = NoResult
                     /\ uttCount' = SatInc(uttCount)
                     /\ changedInDispatch' = FALSE
                     /\ UNCHANGED <<exit_code, file, successes, actuating, quiet,
                                    lastAppend, lastUtterance, outcome, epoch>>
                ELSE /\ UNCHANGED last_processed_line
                     /\ EndCycle(IF latest_line = None THEN "no_line"
                                                      ELSE "suppressed")

\* line 120: the awaited dispatcher has returned; its frame, with the locals
\* response and result, is gone.
DispatchReturned ==
    /\ mainpc = "await_dispatch"
    /\ dpc = "done"
    /\ mainpc' = "sleep"
    /\ dpc' = "idle"
    /\ response' = NoResponse
    /\ result' = NoResult
    /\ UNCHANGED <<watch, mtime, user_prompt, exit_code, flag>>
    /\ UNCHANGED <<file, hist>>

\* line 121: await asyncio.sleep(0.5); the next cycle begins.
Sleep ==
    /\ mainpc = "sleep"
    /\ mainpc' = "exists"
    /\ outcome' = "running"
    /\ UNCHANGED <<watch, mtime, dpc, user_prompt, response, result, exit_code,
                   flag>>
    /\ UNCHANGED <<file, successes, actuating, quiet, lastAppend, uttCount,
                   lastUtterance, changedInDispatch, epoch>>

\* -------------------------------------------- run_gemini_conversation()
\* What no step of the dispatcher touches.
DFrame ==
    UNCHANGED <<file, watch, mtime, user_prompt, quiet, lastAppend, uttCount,
                changedInDispatch, epoch>>

\* The dispatcher returns to main without exiting.
Finish(how) ==
    /\ dpc' = "done"
    /\ outcome' = how
    /\ UNCHANGED <<mainpc, exit_code>>

\* An exception raised inside the try block (lines 57-92): AttributeError and
\* IndexError reach the except branch, which prints response.text inside
\* `try ... except Exception` and returns; any other exception leaves the
\* coroutine and main.
Raise(exc, how) ==
    IF Caught(exc) /\ (response.text \/ CaughtInner(TextError))
    THEN Finish(how) /\ actuating' = 0
    ELSE Crash

\* line 78: exit(0) raises SystemExit, which the except clause of line 88
\* does not catch: the process ends with this status.
\* (faulty variant: the dispatcher returns instead of exiting)
ExitProcess_Continue(code) == Finish("ActionSucceeded")
ExitProcess(code) ==
    /\ mainpc' = "exited"
    /\ dpc' = "exited"
    /\ exit_code' = Some(code)
    /\ outcome' = "ActionSucceeded"

\* line 59: `if function_call:`
\* (faulty variant: the test is missing)
SelectsAction_Always(r) == TRUE
SelectsAction(r) == r.kind = "call"

\* line 58: what response.candidates[0].content.parts[0].function_call raises
\* on a response without candidates or parts, or without the attribute.
ParseError(r) == IF r.kind = "index" THEN "IndexError" ELSE "AttributeError"

\* line 55: model.generate_content(full_prompt) is called.
GenerateContent ==
    /\ dpc = "start"
    /\ dpc' = "generating"
    /\ lastUtterance' = user_prompt
    /\ DFrame
    /\ UNCHANGED flag
    /\ UNCHANGED <<mainpc, response, result, exit_code, successes, actuating,
                   outcome>>

\* line 55: the Oracle answers with response r.
GenerateReturn(r) ==
    /\ dpc = "generating"
    /\ dpc' = "parse"
    /\ response' = r
    /\ DFrame
    /\ UNCHANGED flag
    /\ UNCHANGED <<mainpc, result, exit_code, successes, actuating,
                   lastUtterance, outcome>>

\* line 55 is outside the try block: an error of the request is not caught.
GenerateRaise ==
    /\ dpc = "generating"
    /\ Crash
    /\ DFrame
    /\ UNCHANGED flag
    /\ UNCHANGED <<response, result, successes, lastUtterance>>

\* lines 57-66 and 84-92: parse the response; a known action is called.
ParseResponse ==
    /\ dpc = "parse"
    /\ DFrame
    /\ UNCHANGED flag
    /\ UNCHANGED <<response, result, successes, lastUtterance>>
    /\ IF response.kind \in {"index", "attr"}
       THEN Raise(ParseError(response), "Malformed")
       ELSE IF ~SelectsAction(response)
       THEN Finish("NoAction") /\ UNCHANGED actuating
       ELSE IF LookupTool(response.name) = None
       THEN Finish("UnknownAction") /\ UNCHANGED actuating
       ELSE /\ dpc' = "in_call"
            /\ actuating' = actuating + 1
            /\ UNCHANGED <<mainpc, exit_code, outcome>>

\* lines 66-71: the action returns call_result: the plain value v, a
\* coroutine (awaited), or another awaitable such as a Future or Task that
\* resolves to v (not awaited: iscoroutine is false for it).
CallReturn(kind, v) ==
    /\ dpc = "in_call"
    /\ DFrame
    /\ UNCHANGED flag
    /\ UNCHANGED <<response, lastUtterance, mainpc, exit_code, outcome>>
    /\ IF IsCoroutine(kind)
       THEN /\ dpc' = "awaiting"
            /\ UNCHANGED <<result, successes, actuating>>
       ELSE /\ dpc' = "check"
            /\ result' = (IF kind = "value" THEN v ELSE PyFuture(v))
            /\ successes' = (IF kind = "value" /\ v = PyTrue
                             THEN SatInc(successes) ELSE successes)
            /\ actuating' = actuating - 1

\* line 66: the action raises when called.
CallRaise(exc) ==
    /\ dpc = "in_call"
    /\ DFrame
    /\ UNCHANGED flag
    /\ UNCHANGED <<response, result, successes, lastUtterance>>
    /\ Raise(exc, "ActionRaised")

\* line 69: the awaited coroutine finishes with value v.
AwaitDone(v) ==
    /\ dpc = "awaiting"
    /\ dpc' = "check"
    /\ result' = v
    /\ successes' = (IF v = PyTrue THEN SatInc(successes) ELSE successes)
    /\ actuating' = actuating - 1
    /\ DFrame
    /\ UNCHANGED flag
    /\ UNCHANGED <<response, lastUtterance, mainpc, exit_code, outcome>>

\* line 69: the awaited coroutine raises.
AwaitRaise(exc) ==
    /\ dpc = "awaiting"
    /\ DFrame
    /\ UNCHANGED flag
    /\ UNCHANGED <<response, result, successes, lastUtterance>>
    /\ Raise(exc, "ActionRaised")

\* lines 73-82: `if result == True: exit(0)`; SystemExit is not caught by the
\* except clause and ends the process with status 0. Lines 81-82, the write
\* of dispense_done.flag, run only if control passes the exit call.
CheckResult ==
    /\ dpc = "check"
    /\ DFrame
    /\ UNCHANGED <<response, result, successes, actuating, lastUtterance>>
    /\ IF EqualsTrue(result)
       THEN /\ ExitProcess(0)
            /\ flag' = (IF dpc' = "exited" THEN flag ELSE Some("done"))
       ELSE Finish("ActionFailed") /\ UNCHANGED flag

CallKinds == { "value", "coroutine", "future" }

Main == CheckExists \/ GetMtime \/ ReadFile \/ DispatchReturned \/ Sleep

Dispatch ==
    \/ GenerateContent
    \/ \E r \in Responses : GenerateReturn(r)
    \/ GenerateRaise
    \/ ParseResponse
    \/ \E k \in CallKinds, v \in PlainValues : CallReturn(k, v)
    \/ \E e \in Exceptions : CallRaise(e)
    \/ \E v \in PlainValues : AwaitDone(v)
    \/ \E e \in Exceptions : AwaitRaise(e)
    \/ CheckResult

Next == Env \/ Main \/ Dispatch

Spec == Init /\ [][Next]_vars

\* The steps by which a dispatch moves on when every call it makes returns:
\* the Oracle request and the action are called and return, a coroutine
\* result finishes, and the code between them runs.
Returns ==
    \/ GenerateContent
    \/ \E r \in Responses : GenerateReturn(r)
    \/ ParseResponse
    \/ \E k \in CallKinds, v \in PlainValues : CallReturn(k, v)
    \/ \E v \in PlainValues : AwaitDone(v)
    \/ CheckResult

\* asyncio.run(main()) keeps running the only task there is: the poll loop
\* goes on after every sleep of line 121, and the awaited dispatcher goes on
\* whenever the call it waits for returns. The file's writer is under no
\* obligation.
FairSpec == Spec /\ WF_vars(Main) /\ WF_vars(Returns)

\* ================================================================ claims
Terminated == mainpc = "exited" /\ exit_code = Some(0)
Active == dpc \notin {"idle", "exited", "crashed"}
LastLine == GetLastLine(file.lines)

\* The sentinel was returned at most once, and a success means exit status 0.
C1_State ==
    /\ successes <= 1
    /\ successes = 1 => \/ dpc = "check" /\ result = PyTrue
                        \/ Terminated
    /\ outcome = "ActionSucceeded" => Terminated
\* C1 (at-most-one dispense): the actuator returns the success sentinel at
\* most once; once a dispatch has yielded ActionSucceeded the process is
\* terminated with exit status 0, and from then on no step of main or of the
\* dispatcher happens (no poll, read, Oracle call or actuator invocation),
\* whatever is written to the file afterwards.
C1_AtMostOneDispense ==
    /\ C1_State
    /\ [][ /\ C1_State'
           /\ Terminated =>
                 /\ Terminated'
                 /\ UNCHANGED <<prog, successes, actuating, lastUtterance,
                                outcome>> ]_vars
\* The process has exited after a success while a further, different line
\* sits unprocessed in the file.
C1_Witness ==
    /\ Terminated /\ successes = 1
    /\ file.exists /\ LastLine # None
    /\ LastLine # Some(last_processed_line)
    /\ Some(file.mtime) # last_mtime

\* C3 (duplicate suppression): a poll cycle that found the modification time
\* changed and reads a file whose last non-empty line equals
\* last_processed_line ends at the sleep: no Utterance, no dispatcher start
\* (no Oracle call, no actuator invocation), last_processed_line unchanged.
C3_DuplicateSuppression ==
    [][ ( /\ mainpc = "read" /\ mainpc' # "read"
          /\ file.exists
          /\ LastLine = Some(last_processed_line) )
        => /\ mainpc' = "sleep"
           /\ outcome' = "suppressed"
           /\ UNCHANGED <<last_processed_line, dpc, user_prompt, uttCount,
                          lastUtterance, actuating, exit_code>> ]_vars
\* A cycle has read the file after a change and suppressed the line that an
\* earlier cycle dispatched.
C3_Witness ==
    /\ mainpc = "sleep" /\ outcome = "suppressed"
    /\ lastUtterance = last_processed_line
    /\ LastLine = Some(last_processed_line)

\* C4 (idempotent re-poll): in a poll cycle that starts with the file
\* unchanged since the start of the previous cycle, main never reaches the
\* read nor the dispatcher, ends the cycle as "absent" or "unchanged", and
\* both WatchState fields keep their values.
C4_IdempotentRepoll ==
    [][ quiet' >= 2 =>
          /\ mainpc' \in {"exists", "getmtime", "sleep"}
          /\ dpc' = "idle"
          /\ outcome' \in {"running", "absent", "unchanged"}
          /\ UNCHANGED <<watch, uttCount, lastUtterance>> ]_vars
\* A second poll of an unchanged file that holds a line has ended.
C4_Witness ==
    /\ quiet >= 2 /\ mainpc = "sleep" /\ outcome = "unchanged"
    /\ LastLine # None

\* A poll cycle that started after the latest file change has reached the
\* sleep.
PolledSinceChange == (quiet >= 1 /\ mainpc = "sleep") \/ quiet >= 2

\* C2 as stated (change detection): a non-empty line appended under a new
\* modification time (new also with respect to last_modified_timestamp)
\* has produced exactly one Utterance once a poll cycle has run after the
\* append, however many cycles follow before the next change.
C2_ExactlyOnePerAppend ==
    (lastAppend # NoAppend /\ PolledSinceChange) => uttCount = 1
\* C2 amended: the same for an appended line that differs from
\* last_processed_line; an appended line equal to last_processed_line
\* produces no Utterance, and no appended line ever produces more than one
\* before the next file change.
C2_ExactlyOnePerFreshAppend ==
    /\ (lastAppend.fresh /\ PolledSinceChange) => uttCount = 1
    /\ lastAppend # NoAppend => uttCount <= 1
    /\ (lastAppend # NoAppend /\ ~lastAppend.fresh) => uttCount = 0
\* A fresh line was appended, dispatched once, and a later poll of the
\* unchanged file has ended.
C2_Witness ==
    /\ lastAppend.fresh /\ quiet >= 2 /\ mainpc = "sleep"
    /\ uttCount = 1 /\ lastUtterance = lastAppend.line

\* C5 as stated (strict success sentinel): a dispatch ends the process if
\* and only if the action's result is exactly the boolean True; every other
\* result gives ActionFailed and leaves the process running.
C5_StrictSentinel ==
    /\ outcome = "ActionSucceeded" => result = PyTrue
    /\ (dpc = "done" /\ result \notin {PyTrue, NoResult}) =>
          (outcome = "ActionFailed" /\ Running)

\* The parse step of a response naming an unregistered action, and the
\* states after it.
C6_Step ==
    ( /\ dpc = "parse" /\ dpc' # "parse"
      /\ response.kind = "call"
      /\ response.name \notin AvailableTools )
    => /\ dpc' = "done"
       /\ outcome' = "UnknownAction"
       /\ mainpc' = "await_dispatch"
       /\ UNCHANGED <<actuating, successes, result, exit_code>>
C6_State ==
    outcome = "UnknownAction" =>
       /\ Running /\ actuating = 0 /\ result = NoResult
       /\ \/ dpc = "done" /\ mainpc = "await_dispatch"
          \/ dpc = "idle" /\ mainpc = "sleep"
\* C6 (unknown action): when the parsed response names an action that is not
\* a key of available_tools, the dispatcher returns without invoking an
\* actuator, without exiting and without raising, and main goes on to the
\* sleep and the next poll.
C6_UnknownAction == C6_State /\ [][C6_Step /\ C6_State']_vars
\* An unknown action was named and the loop has reached the sleep.
C6_Witness ==
    /\ outcome = "UnknownAction" /\ mainpc = "sleep"
    /\ response.name \notin AvailableTools /\ Running

\* Where an actuator invocation may start, and how a cycle without an
\* Utterance or without an action selection ends.
C7_Step ==
    /\ actuating' > actuating =>
          /\ dpc = "parse" /\ dpc' = "in_call"
          /\ response.kind = "call" /\ response.name \in AvailableTools
    /\ (mainpc \in {"exists", "getmtime", "read"} /\ mainpc' = "sleep") =>
          /\ outcome' \in {"absent", "unchanged", "no_line", "suppressed"}
          /\ UNCHANGED <<actuating, dpc, exit_code>>
    /\ (dpc = "parse" /\ dpc' # "parse" /\ response.kind = "nocall") =>
          /\ dpc' = "done" /\ outcome' = "NoAction"
          /\ mainpc' = "await_dispatch"
          /\ UNCHANGED <<actuating, exit_code>>
C7_State ==
    outcome \in {"absent", "unchanged", "no_line", "suppressed", "NoAction"} =>
       /\ Running /\ actuating = 0
       /\ mainpc \in {"sleep", "await_dispatch"}
       /\ outcome = "NoAction" => result = NoResult
\* C7 (no action, no actuation): an actuator invocation starts only in the
\* parse step of a response that selects an action of available_tools; a
\* poll step that ends the cycle without an Utterance, and the parse step of
\* a response without an action selection, start no invocation and leave the
\* process running on its way to the next poll.
C7_NoActionNoActuation == C7_State /\ [][C7_Step /\ C7_State']_vars
\* The Oracle selected no action and the loop has reached the sleep without
\* any actuator result.
C7_Witness ==
    /\ outcome = "NoAction" /\ mainpc = "sleep" /\ dpc = "idle"
    /\ response = NoResponse /\ result = NoResult /\ Running

C9_State ==
    Active => /\ last_processed_line = user_prompt
              /\ last_mtime = Some(mtime)
\* C9 (cursor before dispatch): throughout a dispatch of L, from before the
\* Oracle is called, last_processed_line = L and last_modified_timestamp is
\* the modification time that poll observed; and an Oracle call never
\* carries the Utterance of the Oracle call before it, so a file changed
\* during the dispatch of L that still ends in L is not dispatched again.
C9_CursorBeforeDispatch ==
    /\ C9_State
    /\ [][ /\ C9_State'
           /\ (dpc = "start" /\ dpc' = "generating") =>
                 user_prompt # lastUtterance ]_vars
\* The latest file change fell into the dispatch of L, left L as the last
\* line under another modification time, and the poll after it read the
\* file and produced nothing.
C9_Witness ==
    /\ changedInDispatch /\ quiet >= 1
    /\ mainpc = "sleep" /\ outcome = "suppressed"
    /\ lastUtterance = last_processed_line
    /\ LastLine = Some(lastUtterance)

\* C10 as stated (absent file is not an error): a poll step that finds the
\* file missing, also when it was removed after an earlier step of the same
\* cycle, ends the cycle at the sleep with the process running, WatchState
\* unchanged and no Utterance.
C10_AbsentFileNoError ==
    [][ ( /\ mainpc \in {"exists", "getmtime", "read"} /\ mainpc' # mainpc
          /\ ~file.exists )
        => /\ mainpc' = "sleep"
           /\ Running'
           /\ UNCHANGED <<watch, dpc, uttCount>> ]_vars

\* C11 as stated (only success ends the process): a process that is no longer
\* running either exited with status 0 out of a dispatch whose outcome is
\* ActionSucceeded, or was ended by an I/O error of a poll step on the
\* monitored file (no dispatch in progress); a dispatch never ends the
\* process in any other way.
C11_OnlySuccessEnds ==
    ~Running => \/ Terminated /\ outcome = "ActionSucceeded"
                \/ mainpc = "crashed" /\ dpc = "idle"

\* C12 as stated (actuator failure is non-fatal): a step in which the invoked
\* action raises, when called or while its coroutine is awaited, whatever the
\* exception, ends the dispatch with the process running, main still
\* suspended at the await of the dispatcher, an outcome other than
\* ActionSucceeded and no invocation left in progress, so that the loop goes
\* on to the sleep and the next poll cycle.
C12_ActuatorFailureNonFatal ==
    [][ ( /\ dpc \in {"in_call", "awaiting"}
          /\ outcome' \in {"ActionRaised", "error"} )
        => /\ Running'
           /\ dpc' = "done" /\ mainpc' = "await_dispatch"
           /\ outcome' = "ActionRaised"
           /\ actuating' = 0 ]_vars

\* The parse step of a response that yields neither an action selection nor
\* text.
C13_Step ==
    ( /\ dpc = "parse" /\ dpc' # "parse"
      /\ response.kind \in {"index", "attr"} /\ ~response.text )
    => /\ dpc' = "done" /\ mainpc' = "await_dispatch"
       /\ Running'
       /\ outcome' = "Malformed"
       /\ actuating' = 0
       /\ UNCHANGED <<successes, result, watch, flag>>
\* A cycle whose outcome is Malformed.
C13_State ==
    outcome = "Malformed" =>
       /\ Running /\ actuating = 0 /\ result = NoResult
       /\ \/ dpc = "done" /\ mainpc = "await_dispatch"
          \/ dpc = "idle" /\ mainpc = "sleep"
\* C13 (malformed Oracle response is non-fatal): parsing a response without
\* candidates or parts (IndexError) or without the function_call attribute
\* (AttributeError), whose text accessor fails as well, ends the dispatch
\* with outcome Malformed: no actuator is invoked and none has returned a
\* result, the process keeps running, no exception leaves the dispatcher
\* (it returns to main, which is still at its await), and main goes on to
\* the sleep that precedes the next poll cycle.
C13_MalformedNonFatal == C13_State /\ [][C13_Step /\ C13_State']_vars
\* A response without the function_call attribute and without readable text
\* has been parsed, and the dispatcher is about to return to main.
C13_Witness ==
    /\ dpc = "done" /\ outcome = "Malformed"
    /\ response.kind = "attr" /\ ~response.text
    /\ mainpc = "await_dispatch" /\ Running

\* The plain value behind an action's result: the result itself, or what an
\* awaitable result resolves to.
Resolve(r) == IF r.t = "Future" THEN r.resolves ELSE r
\* C14 as stated (uniform immediate and deferred results): the outcome of a
\* dispatch that obtained a result from a registered action depends only on
\* the value v the result is or resolves to, whether the action returned v
\* directly or returned a coroutine, future or task resolving to v; so the
\* outcome is ActionSucceeded, with the process terminated, exactly when v
\* is what a directly returned value must be for ActionSucceeded.
C14_UniformResults ==
    ( /\ dpc \in {"done", "exited"}
      /\ outcome \in {"ActionSucceeded", "ActionFailed"} )
    => /\ (outcome = "ActionSucceeded") <=> EqualsTrue(Resolve(result))
       /\ (outcome = "ActionSucceeded") <=> Terminated

\* C15 as stated (WatchState is mutated only after a successful read): the
\* only step that changes last_mtime or last_processed_line is the step that
\* reads the file's contents, and only when that read succeeds; it follows
\* that a poll cycle whose read fails ends with both fields as they were
\* when the cycle began.
C15_MutatedOnlyAfterRead ==
    [][ watch' # watch => (mainpc = "read" /\ file.exists) ]_vars

IsBlank(l) == \A k \in 1..Len(l) : IsSpace(l[k])
\* t is the raw line l without its leading and trailing whitespace, and is
\* not empty.
TrimOf(l, t) ==
    /\ t # <<>> /\ ~IsSpace(t[1]) /\ ~IsSpace(t[Len(t)])
    /\ \E a \in 0..Len(l) :
          /\ a + Len(t) <= Len(l)
          /\ SubSeq(l, a + 1, a + Len(t)) = t
          /\ \A k \in 1..a : IsSpace(l[k])
          /\ \A k \in (a + Len(t) + 1)..Len(l) : IsSpace(l[k])
\* t is the trimmed text of the last line of `lines` that is not blank.
IsLastLineOf(lines, t) ==
    \E i \in 1..Len(lines) :
       /\ TrimOf(lines[i], t)
       /\ \A j \in (i + 1)..Len(lines) : IsBlank(lines[j])
\* C17 (latest line only): the read step of a poll cycle that starts a
\* dispatch hands over exactly one Utterance, the whitespace-stripped text
\* of the last non-blank line of the file as it is at that read, whatever
\* lines precede it; the Utterance stays the same for the whole dispatch and
\* is what the Oracle call of that dispatch sends; and the read of a file
\* without a non-blank line starts no dispatch and leaves
\* last_processed_line unchanged.
C17_LatestLineOnly ==
    [][ /\ (mainpc = "read" /\ dpc = "idle" /\ dpc' = "start") =>
              /\ file.exists
              /\ IsLastLineOf(file.lines, user_prompt')
              /\ uttCount' = SatInc(uttCount)
        /\ (Active /\ Active') => user_prompt' = user_prompt
        /\ (dpc = "start" /\ dpc' = "generating") =>
              lastUtterance' = user_prompt
        /\ ( /\ mainpc = "read" /\ mainpc' # "read" /\ file.exists
             /\ \A i \in 1..Len(file.lines) : IsBlank(file.lines[i]) )
           => /\ mainpc' = "sleep" /\ dpc' = "idle"
              /\ UNCHANGED <<last_processed_line, uttCount, lastUtterance>>
      ]_vars
\* The file received the lines "b" and " a " before the poll cycle that read
\* it, and the Oracle is being called with "a".
C17_Witness ==
    /\ dpc = "generating" /\ lastUtterance = <<"a">>
    /\ file.lines = << <<"b", "\n">>, <<" ", "a", " ", "\n">> >>
    /\ quiet >= 1 /\ ~changedInDispatch /\ uttCount = 1

\* C18 (modification-time gate): a poll cycle whose modification-time check
\* finds the time equal to last_mtime ends at the sleep without reading the
\* file: no Utterance, WatchState unchanged, whatever the file's last line
\* is; so a line written under the recorded modification time after the read
\* of a cycle waits until a write changes the time. The read of a cycle
\* dispatches the last line of the file as it is at the read, if it is
\* non-empty and differs from last_processed_line, also when it was written
\* after the modification-time check of that cycle, and records it as
\* processed; a read that finds the processed line dispatches nothing.
C18_MtimeGate ==
    [][ /\ ( /\ mainpc = "getmtime" /\ mainpc' # "getmtime"
             /\ file.exists /\ last_mtime = Some(file.mtime) )
           => /\ mainpc' = "sleep" /\ dpc' = "idle" /\ Running'
              /\ UNCHANGED <<watch, uttCount, lastUtterance>>
        /\ ( /\ mainpc = "read" /\ mainpc' # "read" /\ file.exists
             /\ LastLine # None /\ LastLine # Some(last_processed_line) )
           => /\ dpc' = "start"
              /\ user_prompt' = LastLine[1]
              /\ last_processed_line' = LastLine[1]
              /\ uttCount' = SatInc(uttCount)
        /\ ( /\ mainpc = "read" /\ mainpc' # "read" /\ file.exists
             /\ LastLine = Some(last_processed_line) )
           => /\ dpc' = "idle"
              /\ UNCHANGED <<watch, uttCount, lastUtterance>>
      ]_vars
\* A poll cycle has ended at the modification-time check although the file
\* ends in a line that was never dispatched: the line came under the
\* modification time already recorded.
C18_Witness ==
    /\ mainpc = "sleep" /\ outcome = "unchanged" /\ quiet >= 1
    /\ Some(file.mtime) = last_mtime
    /\ LastLine # None /\ LastLine # Some(last_processed_line)
    /\ uttCount = 0
\* A dispatch has started with a line that was written between the
\* modification-time check and the read of its cycle: the file changed after
\* the cycle began and not since the read, and its modification time is not
\* the one the check recorded.
C18_RaceWitness ==
    /\ dpc = "start" /\ quiet = 0 /\ ~changedInDispatch
    /\ Some(file.mtime) # last_mtime
    /\ LastLine = Some(user_prompt) /\ last_processed_line = user_prompt

\* The non-empty texts a line of the file can hold.
Texts == { Strip(l) : l \in RawLines } \ { <<>> }
\* The process is running and the file, in its state number e, has a
\* modification time other than last_mtime and the last non-empty line L,
\* which is not last_processed_line.
Undispatched(e, L) ==
    /\ Running /\ epoch = e
    /\ file.exists /\ Some(file.mtime) # last_mtime
    /\ LastLine = Some(L) /\ L # last_processed_line
\* The Oracle is being called with L.
Sent(L) == dpc = "generating" /\ lastUtterance = L
\* C19 as stated (eventual dispatch): from a state in which the process is
\* running and the file has a modification time other than last_mtime and a
\* last non-empty line L other than last_processed_line, L is eventually
\* sent to the Oracle, unless the file changes again or a call of the
\* dispatcher raises instead of returning.
C19_EventualDispatch ==
    \A e \in {0, 1}, L \in Texts :
       Undispatched(e, L) ~> (Sent(L) \/ epoch # e \/ mainpc = "crashed")
\* C19 amended: the same from a state with no dispatch in progress; and from
\* a state with a dispatch in progress, L is eventually sent to the Oracle
\* unless the file changes again, a call raises, or that dispatch ends the
\* process with its exit(0).
C19_EventualDispatchWhenIdle ==
    \A e \in {0, 1}, L \in Texts :
       /\ (Undispatched(e, L) /\ dpc = "idle")
             ~> (Sent(L) \/ epoch # e \/ mainpc = "crashed")
       /\ Undispatched(e, L)
             ~> (Sent(L) \/ epoch # e \/ mainpc = "crashed" \/ Terminated)
\* The Oracle is being called with "b", the last line of a file that holds
\* "a" before it and has not changed since the poll cycle began.
C19_Witness ==
    /\ Sent(<<"b">>) /\ LastLine = Some(<<"b">>)
    /\ Len(file.lines) = 2 /\ Strip(file.lines[1]) = <<"a">>
    /\ quiet >= 1 /\ uttCount = 1 /\ Running

====
